---- MODULE Spec2Model ----
(***************************************************************************)
(* SQLquest (MistralDataQuest): natural-language question -> LLM call ->   *)
(* SQL string -> dataframe -> analysis -> LLM call -> narrative -> chart.  *)
(*                                                                         *)
(* Strings the code slices, searches or lower-cases are sequences of       *)
(* one-character strings, so that replace/strip/lower/find/startswith are  *)
(* computed as Python computes them.  Messages that are only displayed or  *)
(* compared as a whole are plain TLA+ strings.                             *)
(***************************************************************************)
EXTENDS Integers, Sequences, FiniteSets, TLC

VARIABLES
    pc,               \* position in the submit handler (app.py 286-351) or in the function under study
    mistral_api_key,  \* st.session_state.mistral_api_key / MistralService.api_key
    query_input,      \* the question typed by the user
    tone,             \* the tone selector's value
    response,         \* what the provider answered to the last request
    prompt,           \* the parts of the last prompt built that depend on the arguments
    sql_query,        \* first component of generate_sql's result
    error,            \* second component of generate_sql's result
    raised,           \* class of the exception that left the last call, or NoException
    results_df,       \* the dataframe execute_query returned
    analysis,         \* analyze_query_results(results_df)
    narrative,        \* generate_narrative(...)
    viz_fig,          \* create_visualization(results_df, query_input)
    shown,            \* what the handler has put on the page: messages (by template) and widgets
    calls,            \* the pipeline functions called so far, in order
    executed,         \* the strings passed to Database.execute_query, in order
    http_posts,       \* number of requests.post calls made
    database_url,     \* os.environ's DATABASE_URL
    db_args,          \* the arguments of Database(...): db_path, connection_string
    db,               \* the Database object: engine, inspector, db_type
    metadata,         \* what the inspector reports: tables, columns, keys
    schema_info,      \* Database.get_schema_info()
    session,          \* st.session_state: db_connection_type, connection_string (db is st.session_state.db)
    db_cache,         \* what st.cache_resource holds for initialize_database
    column,           \* the values of one numerical column, df[col]
    col_stats,        \* numerical_stats[col]
    corr_matrix,      \* df[numerical_columns].corr(), before rounding
    correlations,     \* analysis["correlations"]
    corr_value,       \* the argument of _interpret_correlation
    strength,         \* the result of _interpret_correlation
    insights          \* the insights _generate_insights draws from numerical_stats[col]

\* The variables of the submit handler, of the Database object and of the
\* statistics of data_analysis.py
handlervars == << mistral_api_key, query_input, tone, response, prompt, sql_query,
                  error, raised, results_df, analysis, narrative, viz_fig, shown,
                  calls, executed, http_posts >>
dbvars == << database_url, db_args, db, metadata, schema_info, session, db_cache >>
statvars == << column, col_stats, corr_matrix, correlations, corr_value, strength,
              insights >>

vars == << pc, handlervars, dbvars, statvars >>

-----------------------------------------------------------------------------
(* Bounds of the model *)

MaxText == 2    \* segments of free text before and after the SQL statement
MaxCols == 3    \* columns of a result dataframe
MaxRows == 2    \* rows of a result dataframe
MaxLen == 4     \* values of a numerical column
MaxVal == 3     \* largest value of a numerical column
MaxCorr == 1000 \* largest correlation coefficient, in thousandths
MaxFks == 2     \* foreign keys of a table

-----------------------------------------------------------------------------
(* Python values *)

None == "<None>"              \* Python's None
NoException == "<no exception>"
NotSet == "<not set>"         \* a local of the handler that is not bound yet
NoFrame == [unbound |-> TRUE] \* results_df before execute_query has returned

\* The variables a specification does not use keep these values
DbIdle ==
    /\ database_url = NotSet /\ db_args = NotSet /\ db = NotSet
    /\ metadata = NotSet /\ schema_info = NotSet
    /\ session = NotSet /\ db_cache = NotSet

StatIdle ==
    /\ column = NotSet /\ col_stats = NotSet
    /\ corr_matrix = NotSet /\ correlations = NotSet
    /\ corr_value = NotSet /\ strength = NotSet /\ insights = NotSet

HandlerIdle ==
    /\ mistral_api_key = "" /\ query_input = <<>> /\ tone = NotSet
    /\ response = NotSet /\ prompt = NotSet
    /\ sql_query = NotSet /\ error = NotSet /\ raised = NoException
    /\ results_df = NoFrame /\ analysis = NotSet /\ narrative = NotSet
    /\ viz_fig = NotSet
    /\ shown = {} /\ calls = <<>> /\ executed = <<>> /\ http_posts = 0

-----------------------------------------------------------------------------
(* Python str operations on sequences of characters *)

\* The characters whose lower-case form differs, and that form.  U+0130
\* (capital I with dot above, "I_dot") lower-cases to TWO characters.
LowerChar(c) ==
    CASE c = "A" -> <<"a">> [] c = "C" -> <<"c">> [] c = "D" -> <<"d">>
      [] c = "E" -> <<"e">> [] c = "F" -> <<"f">> [] c = "H" -> <<"h">>
      [] c = "I" -> <<"i">>
      [] c = "L" -> <<"l">> [] c = "M" -> <<"m">> [] c = "N" -> <<"n">>
      [] c = "O" -> <<"o">> [] c = "P" -> <<"p">> [] c = "R" -> <<"r">>
      [] c = "S" -> <<"s">> [] c = "T" -> <<"t">> [] c = "W" -> <<"w">>
      [] c = "I_dot" -> <<"i", "dot_above">>
      [] OTHER -> <<c>>

RECURSIVE Lower(_)
Lower(s) == IF s = <<>> THEN <<>> ELSE LowerChar(Head(s)) \o Lower(Tail(s))

Whitespace == {" ", "\n", "\t"}

RECURSIVE LStrip(_)
LStrip(s) == IF s # <<>> /\ Head(s) \in Whitespace THEN LStrip(Tail(s)) ELSE s

RECURSIVE RStrip(_)
RStrip(s) ==
    IF s # <<>> /\ s[Len(s)] \in Whitespace THEN RStrip(SubSeq(s, 1, Len(s) - 1)) ELSE s

Strip(s) == RStrip(LStrip(s))

StartsWith(s, p) == Len(s) >= Len(p) /\ SubSeq(s, 1, Len(p)) = p

\* s.find(p): the lowest 0-based index at which p occurs in s, or -1
Find(s, p) ==
    LET hits == { i \in 0..(Len(s) - Len(p)) : SubSeq(s, i + 1, i + Len(p)) = p }
    IN  IF hits = {} THEN -1 ELSE CHOOSE i \in hits : \A j \in hits : i <= j

\* p in s
Contains(s, p) == Find(s, p) >= 0

\* s.replace(old, ""): the non-overlapping occurrences, left to right
RECURSIVE Remove(_, _)
Remove(s, old) ==
    IF Len(s) < Len(old) THEN s
    ELSE IF StartsWith(s, old) THEN Remove(SubSeq(s, Len(old) + 1, Len(s)), old)
    ELSE <<Head(s)>> \o Remove(Tail(s), old)

\* s[start:] for start >= 0
SliceFrom(s, start) == SubSeq(s, start + 1, Len(s))

-----------------------------------------------------------------------------
(* mistral_service.py *)

kw_select == <<"s","e","l","e","c","t">>
kw_with == <<"w","i","t","h">>
fence_sql == <<"backtick","backtick","backtick","s","q","l">>
fence == <<"backtick","backtick","backtick">>

MsgKeyNotSet == "Mistral API key is not set. Please set the MISTRAL_API_KEY environment variable."
MsgNotSql == "The generated output does not appear to be a valid SQL query"

\* What the provider can do with one POST: fail in transport or with an HTTP
\* status (requests raises a RequestException), or answer with JSON that
\* lacks "choices", has an empty "choices", has a null content, or carries
\* a completion.
HttpFailures ==
    { [kind |-> "request_exception", msg |-> "401 Client Error: Unauthorized for url"],
      [kind |-> "request_exception", msg |-> "Connection refused"] }

MalformedBodies ==
    { [kind |-> "no_choices"], [kind |-> "empty_choices"], [kind |-> "null_content"] }

\* Exceptions: [cls, msg]; every class below derives from Exception.
Exc(cls, msg) == [cls |-> cls, msg |-> msg]
Ok(v) == [cls |-> NoException, value |-> v]
IsExc(r) == r.cls # NoException

\* _call_mistral_api (19-51): [posts, result], result an exception or the
\* response JSON
MutCallMistralApi(api_key, resp) ==
    IF api_key = ""
    THEN [posts |-> 0, result |-> Exc("ValueError", MsgKeyNotSet)]
    ELSE IF resp.kind = "request_exception"
    THEN [posts |-> 2, result |-> Exc("RequestException", resp.msg)]
    ELSE [posts |-> 1, result |-> Ok(resp)]

CallMistralApi(api_key, resp) ==
    IF api_key = ""
    THEN [posts |-> 0, result |-> Exc("ValueError", MsgKeyNotSet)]
    ELSE IF resp.kind = "request_exception"
    THEN [posts |-> 1, result |-> Exc("RequestException", resp.msg)]
    ELSE [posts |-> 1, result |-> Ok(resp)]

\* response["choices"][0]["message"]["content"].strip() (156, 249)
ContentOf(resp) ==
    CASE resp.kind = "no_choices" -> Exc("KeyError", "'choices'")
      [] resp.kind = "empty_choices" -> Exc("IndexError", "list index out of range")
      [] resp.kind = "null_content" ->
            Exc("AttributeError", "'NoneType' object has no attribute 'strip'")
      [] OTHER -> Ok(Strip(resp.content))

\* sql_query.lower().startswith(("select", "with")) (163, 180)
StartsWithSelectOrWith(s) ==
    StartsWith(Lower(s), kw_select) \/ StartsWith(Lower(s), kw_with)

\* lines 165-172: where the SQL query likely starts, -1 if nowhere
StartPos(sql) ==
    LET select_pos == Find(Lower(sql), kw_select)
        with_pos == Find(Lower(sql), kw_with)
    IN  IF select_pos >= 0 /\ (with_pos = -1 \/ select_pos < with_pos) THEN select_pos
        ELSE IF with_pos >= 0 THEN with_pos
        ELSE -1

\* line 160: remove code block markers
RemoveFences(raw_content) == Strip(Remove(Remove(raw_content, fence_sql), fence))

\* lines 179-181: the basic validation of the extracted query
MutValidated(sql) == TRUE
Validated(sql) == StartsWithSelectOrWith(sql)

\* lines 158-183: the completion cleaned up into (sql_query, error)
Sanitize(raw_content) ==
    LET cleaned == RemoveFences(raw_content)
        start_pos == StartPos(cleaned)
        extracted == IF StartsWithSelectOrWith(cleaned) THEN cleaned
                     ELSE Strip(SliceFrom(cleaned, start_pos))
    IN  IF ~StartsWithSelectOrWith(cleaned) /\ start_pos < 0
        THEN [query |-> <<>>, error |-> MsgNotSql]
        ELSE IF ~Validated(extracted)
        THEN [query |-> <<>>, error |-> MsgNotSql]
        ELSE [query |-> extracted, error |-> None]

\* line 184: "except Exception" catches every class the try block can raise
MutCatches(cls) == cls = "RequestException"
Catches(cls) == cls \in {"ValueError", "RequestException", "KeyError", "IndexError",
                         "AttributeError", "TypeError"}

\* generate_sql (53-185), from the call of the API on: [query, error, raised, posts]
generate_sql(api_key, resp) ==
    LET api == CallMistralApi(api_key, resp)
        content == IF IsExc(api.result) THEN api.result ELSE ContentOf(api.result.value)
    IN  IF IsExc(content)
        THEN IF Catches(content.cls)
             THEN [query |-> <<>>, error |-> content.msg,
                   raised |-> NoException, posts |-> api.posts]
             ELSE [query |-> NotSet, error |-> NotSet,
                   raised |-> content.cls, posts |-> api.posts]
        ELSE LET r == Sanitize(content.value)
             IN  [query |-> r.query, error |-> r.error,
                  raised |-> NoException, posts |-> api.posts]

-----------------------------------------------------------------------------
(* Completions the provider may return: free text, an opening fence, a SQL  *)
(* statement, a closing fence, free text.                                   *)

TextSegments ==
    { <<"x", " ">>,                    \* a word of explanation
      <<"w","i","t","h", " ">>,        \* explanation that uses the word "with"
      <<"I_dot","s","t","e", " ">> }   \* a word with a character whose lower() is longer

RECURSIVE TextsOfLen(_)
TextsOfLen(n) ==
    IF n = 0 THEN { <<>> }
    ELSE { a \o b : a \in TextSegments, b \in TextsOfLen(n - 1) }

Texts == UNION { TextsOfLen(n) : n \in 0..MaxText }

Statements ==
    { <<>>,                                                    \* no statement at all
      <<"S","E","L","E","C","T"," ","1">>,
      <<"S","e","l","e","c","t"," ","1">>,
      <<"W","I","T","H"," ","t"," ","s","e","l","e","c","t"," ","1">> }

OpenFences == { <<>>, fence_sql \o <<"\n">>, fence \o <<"\n">> }
CloseFences == { <<>>, <<"\n">> \o fence }

\* text after the statement starts on a line of its own
After(q) == IF q = <<>> THEN <<>> ELSE <<"\n">> \o q

Completions ==
    { [kind |-> "completion", pre |-> p, open |-> o, stmt |-> s, close |-> c, post |-> q,
       content |-> p \o o \o s \o c \o After(q)] :
        p \in Texts, o \in OpenFences, s \in Statements, c \in CloseFences, q \in Texts }

Responses == HttpFailures \cup MalformedBodies \cup Completions

ApiKeys == { "", "sk-key" }

-----------------------------------------------------------------------------
(* Dataframes.  A column is its dtype and whether pd.to_datetime accepts   *)
(* its values; a column's name is its position.                            *)

Int64 == [dtype |-> "int64", to_datetime_ok |-> FALSE]
ObjectDates == [dtype |-> "object", to_datetime_ok |-> TRUE]     \* e.g. '2023-10-05' strings
ObjectText == [dtype |-> "object", to_datetime_ok |-> FALSE]
Bool == [dtype |-> "bool", to_datetime_ok |-> FALSE]
Category == [dtype |-> "category", to_datetime_ok |-> FALSE]
Datetime64 == [dtype |-> "datetime64[ns]", to_datetime_ok |-> TRUE]  \* e.g. a TIMESTAMP column

ColumnKinds == { Int64, ObjectDates, ObjectText, Bool, Category, Datetime64 }

RECURSIVE ColumnsOfLen(_)
ColumnsOfLen(n) ==
    IF n = 0 THEN { <<>> }
    ELSE { Append(cs, k) : cs \in ColumnsOfLen(n - 1), k \in ColumnKinds }

Frames ==
    { [rows |-> r, cols |-> cs] :
        r \in 0..MaxRows, cs \in UNION { ColumnsOfLen(n) : n \in 0..MaxCols } }

\* df.empty: some axis has length 0
Empty(df) == df.rows = 0 \/ Len(df.cols) = 0

\* df.select_dtypes(include=[...]).columns.tolist()
SelectDtypes(df, include) ==
    SelectSeq([i \in 1..Len(df.cols) |-> i], LAMBDA i : df.cols[i].dtype \in include)

NumberDtypes == { "int64", "float64" }

\* [c for c in xs if c not in ys]
Without(xs, ys) == SelectSeq(xs, LAMBDA c : \A j \in 1..Len(ys) : ys[j] # c)

Range(xs) == { xs[i] : i \in 1..Len(xs) }

-----------------------------------------------------------------------------
(* data_analysis.py *)

MsgNoData == "No data to analyze"

\* lines 31-46: [numerical_columns, categorical_columns, date_columns]
ClassifyColumns(df) ==
    LET numerical_columns == SelectDtypes(df, NumberDtypes)
        categorical_columns == SelectDtypes(df, {"object", "category", "bool"})
        date_columns == SelectSeq(SelectDtypes(df, {"object"}),
                                  LAMBDA c : df.cols[c].to_datetime_ok)
    IN  [numerical_columns |-> numerical_columns,
         categorical_columns |-> Without(categorical_columns, date_columns),
         date_columns |-> date_columns]

\* lines 15-24: the result for an empty dataframe
MutEmptyAnalysis ==
    [summary |-> <<>>, numerical_stats |-> <<>>, categorical_stats |-> <<>>,
     temporal_stats |-> <<>>, correlations |-> <<>>, error |-> MsgNoData]
EmptyAnalysis == [error |-> MsgNoData]

\* analyze_query_results (5-136).  The statistics of a column are a function
\* of its values; here each *_stats entry is the list of columns it has a
\* key for.
analyze_query_results(df) ==
    IF Empty(df) THEN EmptyAnalysis
    ELSE LET cls == ClassifyColumns(df)
         IN  [summary |->
                 [row_count |-> df.rows,
                  column_count |-> Len(df.cols),
                  columns |-> [i \in 1..Len(df.cols) |-> i],
                  numerical_columns |-> cls.numerical_columns,
                  categorical_columns |-> cls.categorical_columns,
                  date_columns |-> cls.date_columns],
              numerical_stats |-> cls.numerical_columns,
              categorical_stats |-> cls.categorical_columns,
              temporal_stats |-> cls.date_columns,
              correlations |-> <<>>,
              insights |-> <<>>]

-----------------------------------------------------------------------------
(* data_analysis.py: the statistics of one numerical column (54-78).  The  *)
(* values are small integers or NaN; a quantile of integers is a multiple  *)
(* of 1/4, so Q1 and Q3 are kept in quarters and the fences Q1 - 1.5*IQR   *)
(* and Q3 + 1.5*IQR in eighths: the arithmetic is exact, as it is in       *)
(* binary floating point for these values.                                 *)

\* float('nan'): a value outside the range of the column's values; every
\* comparison tests for it first, as every comparison with NaN is False
NaN == 9999

Values == (0..MaxVal) \cup { NaN }

RECURSIVE SeqsOfLen(_, _)
SeqsOfLen(S, n) ==
    IF n = 0 THEN { <<>> }
    ELSE { Append(q, v) : q \in SeqsOfLen(S, n - 1), v \in S }

\* the columns of a non-empty dataframe
NumericalColumns == UNION { SeqsOfLen(Values, n) : n \in 1..MaxLen }

\* pandas skips NaN in quantile()
DropNa(col) == SelectSeq(col, LAMBDA v : v # NaN)

RECURSIVE Insert(_, _)
Insert(sorted, v) ==
    IF sorted = <<>> THEN << v >>
    ELSE IF v <= Head(sorted) THEN << v >> \o sorted
    ELSE << Head(sorted) >> \o Insert(Tail(sorted), v)

RECURSIVE Sort(_)
Sort(col) == IF col = <<>> THEN <<>> ELSE Insert(Sort(Tail(col)), Head(col))

\* Series.quantile(k/4) with linear interpolation, in quarters: the value
\* at position (n-1)*k/4 of the sorted values; NaN when there is no value
Quantile(col, k) ==
    LET sorted == Sort(DropNa(col))
        n == Len(sorted)
        lo == ((n - 1) * k) \div 4
        frac == ((n - 1) * k) % 4
    IN  IF n = 0 THEN NaN
        ELSE IF frac = 0 THEN 4 * sorted[lo + 1]
        ELSE 4 * sorted[lo + 1] + frac * (sorted[lo + 2] - sorted[lo + 1])

\* lines 67-69, the mask (df[col] < Q1 - 1.5*IQR) | (df[col] > Q3 + 1.5*IQR)
\* for one value, Q1 and Q3 in quarters, both sides in eighths
MutIsOutlier(v, Q1, Q3) ==
    /\ v # NaN /\ Q1 # NaN /\ Q3 # NaN
    /\ \/ 8 * v <= 2 * Q1 - 3 * (Q3 - Q1)
       \/ 8 * v >= 2 * Q3 + 3 * (Q3 - Q1)

IsOutlier(v, Q1, Q3) ==
    /\ v # NaN /\ Q1 # NaN /\ Q3 # NaN
    /\ \/ 8 * v < 2 * Q1 - 3 * (Q3 - Q1)
       \/ 8 * v > 2 * Q3 + 3 * (Q3 - Q1)

\* .sum() of the mask
RECURSIVE SumMask(_, _, _)
SumMask(col, Q1, Q3) ==
    IF col = <<>> THEN 0
    ELSE (IF IsOutlier(Head(col), Q1, Q3) THEN 1 ELSE 0) + SumMask(Tail(col), Q1, Q3)

\* lines 56-72: the entry of numerical_stats for one column (the quantiles,
\* the missing values and the outliers)
RECURSIVE Sum(_)
Sum(col) == IF col = <<>> THEN 0 ELSE Head(col) + Sum(Tail(col))

\* lines 56-72: the entry of numerical_stats for one column.  The mean is
\* the fraction sum/count of the values that are not NaN (count 0: NaN),
\* the median is in quarters like Q1 and Q3.
numerical_stats(col) ==
    LET Q1 == Quantile(col, 1)
        Q3 == Quantile(col, 3)
    IN  [mean |-> [sum |-> Sum(DropNa(col)), count |-> Len(DropNa(col))],
         median |-> Quantile(col, 2),
         Q1 |-> Q1, Q3 |-> Q3,
         missing |-> Len(col) - Len(DropNa(col)),
         outlier_count |-> SumMask(col, Q1, Q3)]

-----------------------------------------------------------------------------
(* data_analysis.py: _generate_insights (164-213), the part of the loop    *)
(* over numerical_stats for one column (177-188)                           *)

\* num/den > a/b and num/den < a/b for den # 0 and b > 0, without division
FracGreater(num, den, a, b) == IF den > 0 THEN num * b > a * den ELSE num * b < a * den
FracLess(num, den, a, b) == IF den > 0 THEN num * b < a * den ELSE num * b > a * den

\* lines 178-182.  skew_ratio = mean / median is (4 * sum) / (count * median
\* in quarters); it is 0 when the median is 0 and NaN when there is no value.
\* abs(skew_ratio - 1) > 0.5 is skew_ratio > 3/2 or skew_ratio < 1/2.
SkewInsight(stats) ==
    LET num == 4 * stats.mean.sum
        den == stats.mean.count * stats.median
        is_nan == stats.mean.count = 0
        zero == ~is_nan /\ stats.median = 0
        above == ~is_nan /\ ~zero /\ FracGreater(num, den, 3, 2)
        below == ~is_nan /\ (zero \/ FracLess(num, den, 1, 2))
    IN  IF above THEN << [kind |-> "highly skewed", direction |-> "right"] >>
        ELSE IF below THEN << [kind |-> "highly skewed", direction |-> "left"] >>
        ELSE <<>>

\* lines 184-188: outlier_count > 0 and more than 5% of row_count
OutlierInsight(stats, row_count) ==
    IF stats.outlier_count > 0 /\ 100 * stats.outlier_count > 5 * row_count
    THEN << [kind |-> "outliers", count |-> stats.outlier_count] >>
    ELSE <<>>

\* the insights of one numerical column, in order
generate_insights(stats, row_count) ==
    SkewInsight(stats) \o OutlierInsight(stats, row_count)

-----------------------------------------------------------------------------
(* data_analysis.py: correlations (114-131) and _interpret_correlation     *)
(* (138-162).  A correlation coefficient is an integer number of           *)
(* thousandths, or NaN; 0.5 is 500, and a value rounded to two decimals is *)
(* a multiple of 10.                                                       *)

Abs(v) == IF v < 0 THEN -v ELSE v

\* _interpret_correlation (138-162); the two parts of the f-string
\* f"{strength} {direction}".  abs(NaN) > x and NaN > 0 are False.
MutDirection(value) == IF value # NaN /\ value >= 0 THEN "positive" ELSE "negative"

Direction(value) == IF value # NaN /\ value > 0 THEN "positive" ELSE "negative"

interpret_correlation(value) ==
    LET abs_value == IF value = NaN THEN NaN ELSE Abs(value)
        strength_ == IF abs_value # NaN /\ abs_value > 800 THEN "very strong"
                     ELSE IF abs_value # NaN /\ abs_value > 600 THEN "strong"
                     ELSE IF abs_value # NaN /\ abs_value > 400 THEN "moderate"
                     ELSE IF abs_value # NaN /\ abs_value > 200 THEN "weak"
                     ELSE "very weak"
    IN  << strength_, Direction(value) >>

\* .round(2) of one coefficient: to the nearest hundredth, a half to the even
\* hundredth; NaN stays NaN
Round2(v) ==
    IF v = NaN THEN NaN
    ELSE LET r == v % 10
             base == v - r
         IN  IF r < 5 THEN base
             ELSE IF r > 5 THEN base + 10
             ELSE IF (base \div 10) % 2 = 0 THEN base ELSE base + 10

\* line 122: not pd.isna(corr_value) and abs(corr_value) > 0.5
MutSignificant(v) == v # NaN /\ Abs(v) >= 500

Significant(v) == v # NaN /\ Abs(v) > 500

\* The coefficients DataFrame.corr() can give for a pair of columns: NaN
\* (a constant column), and values on both sides of 0.5 and of 0.505
RawCorrs == { NaN, -MaxCorr, -506, 0, 505, 506 }

Pairs(n) == { p \in (1..n) \X (1..n) : p[1] < p[2] }

\* corr() of n numerical columns: symmetric, 1 on the diagonal
CorrMatrices(n) ==
    { [ p \in (1..n) \X (1..n) |->
          IF p[1] < p[2] THEN u[p]
          ELSE IF p[1] > p[2] THEN u[<< p[2], p[1] >>]
          ELSE MaxCorr ] : u \in [ Pairs(n) -> RawCorrs ] }

\* lines 117-127: the inner loop over j from `from` on, for one i
RECURSIVE CorrRow(_, _, _, _)
CorrRow(m, n, i, from) ==
    IF from > n THEN <<>>
    ELSE LET corr_value_ == Round2(m[<< i, from >>])
         IN  (IF Significant(corr_value_)
              THEN << [columns |-> << i, from >>,
                       correlation |-> corr_value_,
                       strength |-> interpret_correlation(corr_value_)] >>
              ELSE <<>>)
             \o CorrRow(m, n, i, from + 1)

\* the outer loop over i
RECURSIVE CorrRows(_, _, _)
CorrRows(m, n, i) ==
    IF i > n THEN <<>>
    ELSE CorrRow(m, n, i, i + 1) \o CorrRows(m, n, i + 1)

\* lines 114-131: analysis["correlations"] for n numerical columns (named by
\* their position in numerical_columns) whose corr() is m
Correlations(n, m) == IF n > 1 THEN CorrRows(m, n, 1) ELSE <<>>

-----------------------------------------------------------------------------
(* visualization.py *)

comparison_keywords ==
    { <<"c","o","m","p","a","r","e">>,
      <<"c","o","m","p","a","r","i","s","o","n">>,
      <<"v","e","r","s","u","s">>,
      <<"v","s">>,
      <<"a","g","a","i","n","s","t">>,
      <<"d","i","f","f","e","r","e","n","c","e">>,
      <<"d","i","s","t","r","i","b","u","t","i","o","n">> }

time_keywords ==
    { <<"t","i","m","e">>,
      <<"y","e","a","r">>,
      <<"m","o","n","t","h">>,
      <<"d","a","y">>,
      <<"d","a","t","e">>,
      <<"t","r","e","n","d">>,
      <<"g","r","o","w","t","h">>,
      <<"d","e","c","l","i","n","e">>,
      <<"i","n","c","r","e","a","s","e">>,
      <<"d","e","c","r","e","a","s","e">> }

relationship_keywords ==
    { <<"r","e","l","a","t","i","o","n">>,
      <<"r","e","l","a","t","i","o","n","s","h","i","p">>,
      <<"c","o","r","r","e","l","a","t","i","o","n">>,
      <<"a","f","f","e","c","t">>,
      <<"i","m","p","a","c","t">>,
      <<"i","n","f","l","u","e","n","c","e">>,
      <<"b","e","t","w","e","e","n">> }

\* any(keyword in query for keyword in keywords)
AnyKeyword(keywords, query) == \E keyword \in keywords : Contains(query, keyword)

MsgNotEnough == "Not enough data to visualize"
MsgNoViz == "No appropriate visualization available for this data"

Annotation(text) == [chart |-> "annotation", text |-> text, args |-> <<>>]
Chart(name, args) == [chart |-> name, text |-> "", args |-> args]

\* line 18: too little data to draw
MutTooSmall(df) == Empty(df)
TooSmall(df) == Empty(df) \/ df.rows <= 1

\* the date columns left among the categorical ones
MutVizColumns(df) ==
    [numerical_cols |-> SelectDtypes(df, NumberDtypes),
     categorical_cols |-> SelectDtypes(df, {"object", "category", "bool"}),
     date_cols |-> SelectSeq(SelectDtypes(df, {"object", "category", "bool"}),
                             LAMBDA c : df.cols[c].to_datetime_ok)]
\* lines 28-42: [numerical_cols, categorical_cols, date_cols]
VizColumns(df) ==
    LET numerical_cols == SelectDtypes(df, NumberDtypes)
        categorical_cols == SelectDtypes(df, {"object", "category", "bool"})
        date_cols == SelectSeq(categorical_cols, LAMBDA c : df.cols[c].to_datetime_ok)
    IN  [numerical_cols |-> numerical_cols,
         categorical_cols |-> Without(categorical_cols, date_cols),
         date_cols |-> date_cols]

FirstOrNone(xs) == IF xs # <<>> THEN xs[1] ELSE None

\* the comparison branch tested before the time-series branch
MutSelectChart(num, cat, dat, is_time_series, is_comparison, is_relationship) ==
    IF is_comparison /\ cat # <<>> /\ num # <<>>
    THEN Chart("comparison", <<cat[1], num[1]>>)
    ELSE IF is_time_series /\ dat # <<>> /\ num # <<>>
    THEN Chart("time_series", <<dat[1], num, cat>>)
    ELSE IF is_relationship /\ Len(num) >= 2
    THEN Chart("scatter_plot", <<num[1], num[2], FirstOrNone(cat)>>)
    ELSE IF Len(num) >= 1 /\ Len(cat) >= 1
    THEN Chart("bar_chart", <<cat[1], num[1]>>)
    ELSE IF Len(num) >= 2
    THEN Chart("scatter_plot", <<num[1], num[2], None>>)
    ELSE IF Len(cat) >= 1
    THEN Chart("pie_chart", <<cat[1]>>)
    ELSE IF Len(num) >= 1
    THEN Chart("histogram", <<num[1]>>)
    ELSE Annotation(MsgNoViz)

\* lines 59-83: the if/elif chain
SelectChart(num, cat, dat, is_time_series, is_comparison, is_relationship) ==
    IF is_time_series /\ dat # <<>> /\ num # <<>>
    THEN Chart("time_series", <<dat[1], num, cat>>)
    ELSE IF is_comparison /\ cat # <<>> /\ num # <<>>
    THEN Chart("comparison", <<cat[1], num[1]>>)
    ELSE IF is_relationship /\ Len(num) >= 2
    THEN Chart("scatter_plot", <<num[1], num[2], FirstOrNone(cat)>>)
    ELSE IF Len(num) >= 1 /\ Len(cat) >= 1
    THEN Chart("bar_chart", <<cat[1], num[1]>>)
    ELSE IF Len(num) >= 2
    THEN Chart("scatter_plot", <<num[1], num[2], None>>)
    ELSE IF Len(cat) >= 1
    THEN Chart("pie_chart", <<cat[1]>>)
    ELSE IF Len(num) >= 1
    THEN Chart("histogram", <<num[1]>>)
    ELSE Annotation(MsgNoViz)

\* create_visualization (6-83)
create_visualization(df, question) ==
    IF TooSmall(df) THEN Annotation(MsgNotEnough)
    ELSE LET c == VizColumns(df)
             query == Lower(question)
             is_comparison == AnyKeyword(comparison_keywords, query)
             is_time_series == AnyKeyword(time_keywords, query) /\ c.date_cols # <<>>
             is_relationship == AnyKeyword(relationship_keywords, query)
                                /\ Len(c.numerical_cols) >= 2
         IN  SelectChart(c.numerical_cols, c.categorical_cols, c.date_cols,
                         is_time_series, is_comparison, is_relationship)

\* Questions a user may type
Questions ==
    { <<"T","o","p"," ","s","a","l","e","s">>,
      <<"S","a","l","e","s"," ","T","R","E","N","D">>,
      <<"C","o","m","p","a","r","e"," ","s","a","l","e","s">>,
      <<"i","m","p","a","c","t">>,
      <<"C","o","m","p","a","r","e"," ","t","r","e","n","d">>,
      <<"t","r","e","n","d"," ","b","e","t","w","e","e","n">>,
      <<"a"," ","v","s"," ","b"," ","b","e","t","w","e","e","n">>,
      <<"t","o","d","a","y">>,
      <<"C","o","m","p","a","r","e"," ","t","r","e","n","d"," ","i","m","p","a","c","t">> }

-----------------------------------------------------------------------------
(* mistral_service.py: generate_narrative *)

FormalDirective == "Use a professional, concise, and formal tone with precise language."
CasualDirective == "Use a conversational, friendly, and easy-to-understand tone."

\* lines 212-217
MutToneInstructions(t) ==
    IF t = <<"F","o","r","m","a","l">> THEN FormalDirective ELSE CasualDirective

ToneInstructions(t) ==
    IF t = <<"f","o","r","m","a","l">> THEN FormalDirective ELSE CasualDirective

\* lines 220-240: the prompt, as the parts of the f-string in order; the
\* interpolated question, query, data and analysis are named, the tone
\* instructions are spelled out
NarrativePrompt(t) ==
    << "You are a data analyst creating insights from SQL query results.",
       "Original question: {original_query}",
       "SQL query: {sql_query}",
       "Data summary: {data_summary}",
       "Sample data: {data_sample}",
       "Analysis: {analysis_text}",
       "Generate a narrative that explains the key insights from this data in response to the original question.",
       ToneInstructions(t),
       "The narrative should be 3-5 paragraphs, highlighting important patterns, trends, or anomalies.",
       "Make specific references to actual values in the data.",
       "Do not mention that you are an AI or assistant. Simply provide the insights directly.",
       "Format the response with appropriate Markdown headings, lists, and emphasis where helpful." >>

NarrativeFailed(msg) == << "Unable to generate insights due to an error: ", msg >>

\* line 251: "except Exception"
MutNarrativeCatches(cls) == cls = "RequestException"
NarrativeCatches(cls) == cls \in {"ValueError", "RequestException", "KeyError", "IndexError",
                                  "AttributeError", "TypeError"}

\* generate_narrative (187-253), from the tone instructions on:
\* [narrative, raised, posts, prompt]
generate_narrative(api_key, t, resp) ==
    LET api == CallMistralApi(api_key, resp)
        content == IF IsExc(api.result) THEN api.result ELSE ContentOf(api.result.value)
    IN  IF IsExc(content)
        THEN IF NarrativeCatches(content.cls)
             THEN [narrative |-> NarrativeFailed(content.msg), raised |-> NoException,
                   posts |-> api.posts, prompt |-> NarrativePrompt(t)]
             ELSE [narrative |-> NotSet, raised |-> content.cls,
                   posts |-> api.posts, prompt |-> NarrativePrompt(t)]
        ELSE [narrative |-> content.value, raised |-> NoException,
              posts |-> api.posts, prompt |-> NarrativePrompt(t)]

NarrativeResponses ==
    HttpFailures \cup MalformedBodies
    \cup { [kind |-> "completion", content |-> <<"#", " ", "S", "a", "l", "e", "s", "\n">>] }

-----------------------------------------------------------------------------
(* database.py: execute_query *)

MsgSqlError == "(sqlite3.OperationalError) no such table"

\* What the database does with one statement: fail, or return rows
DbAnswers ==
    { [kind |-> "error", msg |-> MsgSqlError] }
    \cup { [kind |-> "rows", frame |-> [rows |-> r, cols |-> cs]] :
             r \in 0..MaxRows,
             cs \in { <<Int64>>, <<ObjectText, Int64>>, <<ObjectDates, Int64>>,
                      <<Datetime64, ObjectText>> } }

\* execute_query (302-323): the dataframe gets its column names only when
\* it has rows
execute_query(answer) ==
    IF answer.kind = "error" THEN Exc("SQLAlchemyError", answer.msg)
    ELSE IF answer.frame.rows = 0 THEN Ok([rows |-> 0, cols |-> <<>>])
    ELSE Ok(answer.frame)

-----------------------------------------------------------------------------
(* database.py: Database.__init__, _connect_to_default_db, _setup_sqlite.  *)
(* URLs, paths and db_type are sequences of characters; an engine is the   *)
(* dialect SQLAlchemy took from the URL, and the URL.                      *)

Sqlite == <<"s","q","l","i","t","e">>
Postgresql == <<"p","o","s","t","g","r","e","s","q","l">>
Mysql == <<"m","y","s","q","l">>

\* "postgresql://h/d", "mysql+pymysql://h/d" and "postgres://h/d"
PgUrl == <<"p","o","s","t","g","r","e","s","q","l",":","/","/","h","/","d">>
MyUrl == <<"m","y","s","q","l","+","p","y","m","y","s","q","l",":","/","/","h","/","d">>
LegacyPgUrl == <<"p","o","s","t","g","r","e","s",":","/","/","h","/","d">>

\* "data/sample.db" (line 65) and the path of an uploaded file
DefaultPath == <<"d","a","t","a","/","s","a","m","p","l","e",".","d","b">>
UploadedPath == <<"u","p",".","d","b">>

\* f"sqlite:///{db_path}" (line 82)
SqliteUrl(path) == <<"s","q","l","i","t","e",":","/","/","/">> \o path

\* An argument or environment variable that is None or "": the code only
\* tests it with "if x:"
Unset == <<>>
Truthy(x) == x # Unset

\* self.engine = None, self.inspector = None (17-18)
NoEngine == [dialect |-> <<>>, url |-> <<>>]

\* the dialect name of a URL: what precedes "://", without the "+driver"
DialectOf(url) ==
    LET name == SubSeq(url, 1, Find(url, <<":">>))
    IN  IF Contains(name, <<"+">>) THEN SubSeq(name, 1, Find(name, <<"+">>)) ELSE name

\* sqlalchemy.create_engine(url): no connection is made; an unknown dialect
\* name ("postgres") raises NoSuchModuleError, a SQLAlchemyError
create_engine(url) ==
    IF DialectOf(url) \in { Sqlite, Postgresql, Mysql }
    THEN Ok([dialect |-> DialectOf(url), url |-> url])
    ELSE Exc("NoSuchModuleError", "Can't load plugin")

\* What the environment does to one construction: whether the server of
\* the connection string, the server of DATABASE_URL and the SQLite file
\* accept the connection that inspect() opens, what get_table_names() finds
\* and whether the sample tables can be created
Fates ==
    [ connection_string : { "ok", "error" },
      database_url : { "ok", "error" },
      tables : { "some", "none", "error" },
      samples : { "ok", "error" },
      sqlite : { "ok", "error" } ]

\* _setup_sqlite (61-86)
setup_sqlite(self, db_path, fate) ==
    LET path == IF Truthy(db_path) THEN db_path ELSE DefaultPath
        self1 == IF Truthy(db_path) THEN self
                 ELSE [self EXCEPT !.samples = @ \cup { DefaultPath }]
        self2 == [self1 EXCEPT !.engine = create_engine(SqliteUrl(path)).value]
    IN  IF fate.sqlite = "error" THEN self2
        ELSE [self2 EXCEPT !.inspector = self2.engine]

\* _connect_to_default_db (39-59)
connect_to_default_db(self, db_path, url, fate) ==
    IF Truthy(url)
    THEN LET eng == create_engine(url)
         IN  IF IsExc(eng) THEN setup_sqlite(self, db_path, fate)
             ELSE LET self1 == [self EXCEPT !.engine = eng.value]
                      self2 == [self1 EXCEPT !.inspector = eng.value,
                                             !.db_type = Postgresql]
                  IN  IF fate.database_url = "error" THEN setup_sqlite(self1, db_path, fate)
                      ELSE IF fate.tables = "error" THEN setup_sqlite(self2, db_path, fate)
                      ELSE IF fate.tables = "some" THEN self2
                      ELSE IF fate.samples = "error" THEN setup_sqlite(self2, db_path, fate)
                      ELSE [self2 EXCEPT !.samples = @ \cup { url }]
    ELSE setup_sqlite(self, db_path, fate)

\* Database.__init__ (8-37): the object's engine, inspector and db_type, and
\* the places where sample tables were created
Database(db_path, connection_string, url, fate) ==
    LET self == [engine |-> NoEngine, inspector |-> NoEngine, db_type |-> Sqlite,
                 samples |-> {}]
    IN  IF Truthy(connection_string)
        THEN LET eng == create_engine(connection_string)
             IN  IF IsExc(eng) THEN connect_to_default_db(self, db_path, url, fate)
                 ELSE LET self1 == [self EXCEPT !.engine = eng.value]
                      IN  IF fate.connection_string = "error"
                          THEN connect_to_default_db(self1, db_path, url, fate)
                          ELSE [self1 EXCEPT
                                  !.inspector = eng.value,
                                  !.db_type =
                                      IF Contains(connection_string, Postgresql) THEN Postgresql
                                      ELSE IF Contains(connection_string, Mysql) THEN Mysql
                                      ELSE @]
        ELSE connect_to_default_db(self, db_path, url, fate)

\* the arguments the app passes (app.py 38, 113, 134, 155, 171) and the
\* values of DATABASE_URL
DbPaths == { Unset, UploadedPath }
ConnectionStrings == { Unset, PgUrl, MyUrl }
DatabaseUrls == { Unset, PgUrl, MyUrl, LegacyPgUrl }

-----------------------------------------------------------------------------
(* app.py: initialize_database (31-35) and the "Connect" handlers of the   *)
(* external PostgreSQL and MySQL databases (128-140, 149-161)              *)

MsgConnectedPostgreSQL == "Connected to PostgreSQL database successfully!"
MsgConnectedMySQL == "Connected to MySQL database successfully!"
MsgConnectError == "Error connecting to database: {str(e)}"
MsgFillFields == "Please fill in all required fields"

\* whether the DBAPI module of the connection string can be imported: when
\* it cannot, create_engine (line 24) raises ModuleNotFoundError, which is
\* not a SQLAlchemyError and leaves __init__
Drivers == { "installed", "missing" }

\* initialize_database (32-35) under st.cache_resource: the object built by
\* an earlier call with the same arguments is returned again; an exception
\* is not cached.  [result, cache]
initialize_database(cache, db_path, connection_string, url, fate, driver) ==
    LET hits == { e \in cache : /\ e.db_path = db_path
                                /\ e.connection_string = connection_string }
    IN  IF hits # {}
        THEN [result |-> Ok((CHOOSE e \in hits : TRUE).object), cache |-> cache]
        ELSE IF Truthy(connection_string) /\ driver = "missing"
        THEN [result |-> Exc("ModuleNotFoundError", "No module named"), cache |-> cache]
        ELSE LET object == Database(db_path, connection_string, url, fate)
             IN  [result |-> Ok(object),
                  cache |-> cache \cup { [db_path |-> db_path,
                                          connection_string |-> connection_string,
                                          object |-> object] }]

\* lines 128-140 and 149-161: the button is pressed; filled says whether
\* the required fields are filled, connection_string is the f-string built
\* from them.  st.rerun() ends the script after st.success.
Connect(connection_string, success) ==
    /\ pc = "idle"
    /\ \E filled \in BOOLEAN, fate \in Fates, driver \in Drivers :
          IF ~filled
          THEN /\ shown' = { MsgFillFields }
               /\ UNCHANGED << db, db_args, session, db_cache >>
          ELSE LET r == initialize_database(db_cache, Unset, connection_string,
                                            database_url, fate, driver)
               IN  /\ session' = [db_connection_type |-> "external",
                                  connection_string |-> connection_string]
                   /\ db_args' = [db_path |-> Unset,
                                  connection_string |-> connection_string]
                   /\ db_cache' = r.cache
                   /\ IF IsExc(r.result)
                      THEN /\ shown' = { MsgConnectError }
                           /\ UNCHANGED db
                      ELSE /\ shown' = { success }
                           /\ db' = r.result.value
    /\ pc' = "done"
    /\ UNCHANGED << statvars, database_url, metadata, schema_info, mistral_api_key,
                    query_input, tone, response, prompt, sql_query, error, raised,
                    results_df, analysis, narrative, viz_fig, calls, executed,
                    http_posts >>

-----------------------------------------------------------------------------
(* database.py: get_schema_info (262-300).  The inspector's answers are    *)
(* the metadata: the tables in order, each with its columns (name, type),  *)
(* its primary key constraint and its foreign keys.                        *)

\* str(column['type']) of two column types
ColumnTypes == { <<"R","E","A","L">>, <<"D","A","T","E">> }

\* foreign keys of table t (columns a, b, c): over one column, over two
\* columns, and to the table itself
ForeignKeys ==
    { [constrained_columns |-> << "a" >>, referred_table |-> "u",
       referred_columns |-> << "x" >>],
      [constrained_columns |-> << "b" >>, referred_table |-> "u",
       referred_columns |-> << "y" >>],
      [constrained_columns |-> << "a", "b" >>, referred_table |-> "u",
       referred_columns |-> << "x", "y" >>],
      [constrained_columns |-> << "c" >>, referred_table |-> "t",
       referred_columns |-> << "a" >>] }

\* table u (columns x, y), referred to by t
TableU ==
    [name |-> "u",
     columns |-> << [name |-> "x", type |-> <<"R","E","A","L">>],
                    [name |-> "y", type |-> <<"R","E","A","L">>] >>,
     primary_key |-> << "x", "y" >>,
     foreign_keys |-> <<>>]

TablesT ==
    { [name |-> "t",
       columns |-> << [name |-> "a", type |-> ta], [name |-> "b", type |-> tb],
                      [name |-> "c", type |-> <<"D","A","T","E">>] >>,
       primary_key |-> pk,
       foreign_keys |-> fks] :
         ta \in ColumnTypes, tb \in ColumnTypes,
         pk \in { <<>>, << "a" >>, << "a", "b" >> },
         fks \in UNION { SeqsOfLen(ForeignKeys, n) : n \in 0..MaxFks } }

\* a Database without inspector, or with one that reports t alone or t and u
Metadata ==
    { [inspector |-> i, tables |-> ts] :
        i \in BOOLEAN,
        ts \in { << t >> : t \in TablesT } \cup { << t, TableU >> : t \in TablesT } }

\* lines 290-295: the loop over foreign_keys for one column; refs is
\* col['references'] so far, a set with no or one element
RECURSIVE MarkForeignKeys(_, _, _)
MarkForeignKeys(name, fks, refs) ==
    IF fks = <<>> THEN refs
    ELSE LET fk == Head(fks)
         IN  MarkForeignKeys(name, Tail(fks),
                 IF name \in Range(fk.constrained_columns)
                 THEN { [table |-> fk.referred_table, column |-> fk.referred_columns[1]] }
                 ELSE refs)

\* lines 274-295 for one column: is_primary_key is TRUE when the key is set
\* (it is only ever set to True), references holds the entry when it is set
ColumnInfo(column_, table) ==
    [name |-> column_.name,
     type |-> Lower(column_.type),
     is_primary_key |-> column_.name \in Range(table.primary_key),
     references |-> MarkForeignKeys(column_.name, table.foreign_keys, {})]

\* get_schema_info (262-300): a dict from table names to lists of columns
get_schema_info(md) ==
    IF ~md.inspector THEN <<>>
    ELSE [ n \in { md.tables[i].name : i \in DOMAIN md.tables } |->
             LET table == CHOOSE t \in Range(md.tables) : t.name = n
             IN  [ k \in DOMAIN table.columns |-> ColumnInfo(table.columns[k], table) ] ]

-----------------------------------------------------------------------------
(* mistral_service.py: the dialect generate_sql asks for (78-147) *)

postgresql_types ==
    { <<"s","e","r","i","a","l">>,
      <<"b","i","g","s","e","r","i","a","l">>,
      <<"t","i","m","e","s","t","a","m","p">>,
      <<"u","u","i","d">>,
      <<"i","n","t","e","r","v","a","l">>,
      <<"j","s","o","n">>,
      <<"j","s","o","n","b">> }

\* lines 79-100; types are the column types of schema_info
IsPostgresql(db_type_, types, url) ==
    LET by_argument ==
            IF Truthy(db_type_) THEN Contains(Lower(db_type_), <<"p","o","s","t","g","r","e","s">>)
            ELSE \E t \in types : \E pg \in postgresql_types : Contains(Lower(t), pg)
        by_environment ==
            Contains(Lower(url), <<"p","o","s","t","g","r","e","s">>)
    IN  by_argument \/ by_environment

\* lines 102-147: the dialect the prompt names (133, 140, 143) and the
\* guidelines it carries (105-124)
SqlPrompt(db_type_, types, url) ==
    IF IsPostgresql(db_type_, types, url)
    THEN [dialect |-> "PostgreSQL", guidelines |-> "CRITICAL PostgreSQL-specific guidelines:"]
    ELSE [dialect |-> "SQLite", guidelines |-> "SQLite-specific guidelines:"]

-----------------------------------------------------------------------------
(* app.py: the handler of the "Get Insights" button *)

MsgEnterQuestion == "Please enter a question to proceed."
MsgNoKey == "No valid Mistral API key found."
MsgNoResults == "The query returned no results."
MsgSqlGenError == "Error generating SQL query: {error}"
MsgExecError == "Error executing query: {str(e)}"
MsgErrorOccurred == "An error occurred: {str(e)}"

Tones == { <<"F","o","r","m","a","l">>, <<"C","a","s","u","a","l">> }

\* line 303: "if error:"
MutErrorReported(err) == FALSE
ErrorReported(err) == err # None /\ err # ""

\* line 314: "results_df is not None and not results_df.empty"
MutHasResults(df) == TRUE
HasResults(df) == ~Empty(df)

\* the responses to the SQL request tried in the handler: every failure, and
\* the completions with at most one leading segment and nothing trailing
HandlerResponses ==
    { r \in Responses :
        r.kind = "completion" =>
            /\ r.post = <<>> /\ r.close = <<>>
            /\ \E n \in {0, 1} : r.pre \in TextsOfLen(n) }

HandlerQuestions ==
    { <<>>,
      <<"T","o","p"," ","s","a","l","e","s">>,
      <<"C","o","m","p","a","r","e"," ","t","r","e","n","d">> }

Init ==
    /\ pc = "idle"
    /\ mistral_api_key \in ApiKeys
    /\ query_input = <<>> /\ tone = NotSet
    /\ response = NotSet
    /\ sql_query = NotSet /\ error = NotSet /\ raised = NoException
    /\ results_df = NoFrame /\ analysis = NotSet /\ narrative = NotSet
    /\ viz_fig = NotSet
    /\ shown = {} /\ calls = <<>> /\ executed = <<>> /\ http_posts = 0
    /\ prompt = NotSet /\ DbIdle /\ StatIdle

\* lines 277-292 and 350-351: the button is pressed
Submit ==
    /\ pc = "idle"
    /\ \E q \in HandlerQuestions, t \in Tones :
          /\ query_input' = q
          /\ tone' = t
          /\ IF q = <<>>
             THEN /\ shown' = { MsgEnterQuestion }
                  /\ pc' = "done"
             ELSE IF mistral_api_key = ""
             THEN /\ shown' = { MsgNoKey }
                  /\ pc' = "done"
             ELSE /\ shown' = {}
                  /\ pc' = "generate_sql"
    /\ UNCHANGED << dbvars, statvars, prompt, mistral_api_key, response, sql_query, error, raised, results_df,
                    analysis, narrative, viz_fig, calls, executed, http_posts >>

\* lines 295-308 and 348-349
GenerateSql ==
    /\ pc = "generate_sql"
    /\ \E resp \in HandlerResponses :
          LET r == generate_sql(mistral_api_key, resp)
          IN  /\ response' = resp
              /\ http_posts' = http_posts + r.posts
              /\ raised' = r.raised
              /\ IF r.raised # NoException
                 THEN /\ shown' = shown \cup { MsgErrorOccurred }
                      /\ pc' = "done"
                      /\ UNCHANGED << sql_query, error >>
                 ELSE /\ sql_query' = r.query
                      /\ error' = r.error
                      /\ IF ErrorReported(r.error)
                         THEN /\ shown' = shown \cup { MsgSqlGenError }
                              /\ pc' = "done"
                         ELSE /\ shown' = shown \cup { "st.code(sql_query)" }
                              /\ pc' = "execute_query"
    /\ calls' = Append(calls, "generate_sql")
    /\ UNCHANGED << dbvars, statvars, prompt, mistral_api_key, query_input, tone,
                    results_df, analysis, narrative, viz_fig, executed >>

\* lines 310-314 and 344-347
ExecuteQuery ==
    /\ pc = "execute_query"
    /\ \E answer \in DbAnswers :
          LET r == execute_query(answer)
          IN  IF IsExc(r)
              THEN /\ shown' = shown \cup { MsgExecError }
                   /\ pc' = "done"
                   /\ UNCHANGED results_df
              ELSE /\ results_df' = r.value
                   /\ IF HasResults(r.value)
                      THEN /\ pc' = "analyze_query_results"
                           /\ UNCHANGED shown
                      ELSE /\ shown' = shown \cup { MsgNoResults }
                           /\ pc' = "done"
    /\ calls' = Append(calls, "execute_query")
    /\ executed' = Append(executed, sql_query)
    /\ UNCHANGED << dbvars, statvars, prompt, mistral_api_key, query_input, tone, response, sql_query, error,
                    raised, analysis, narrative, viz_fig, http_posts >>

\* lines 315-316
Analyze ==
    /\ pc = "analyze_query_results"
    /\ analysis' = analyze_query_results(results_df)
    /\ calls' = Append(calls, "analyze_query_results")
    /\ pc' = "generate_narrative"
    /\ UNCHANGED << dbvars, statvars, prompt, mistral_api_key, query_input, tone, response, sql_query, error,
                    raised, results_df, narrative, viz_fig, shown, executed, http_posts >>

\* lines 318-337 and 346-347
GenerateNarrative ==
    /\ pc = "generate_narrative"
    /\ \E resp \in NarrativeResponses :
          LET r == generate_narrative(mistral_api_key, Lower(tone), resp)
          IN  /\ response' = resp
              /\ prompt' = r.prompt
              /\ narrative' = r.narrative
              /\ raised' = r.raised
              /\ http_posts' = http_posts + r.posts
              /\ IF r.raised # NoException
                 THEN /\ shown' = shown \cup { MsgExecError }
                      /\ pc' = "done"
                 ELSE /\ shown' = shown \cup { "st.markdown(narrative)",
                                                "st.dataframe(results_df)" }
                      /\ pc' = "create_visualization"
    /\ calls' = Append(calls, "generate_narrative")
    /\ UNCHANGED << dbvars, statvars, mistral_api_key, query_input, tone, sql_query,
                    error, results_df, analysis, viz_fig, executed >>

\* lines 339-343
CreateVisualization ==
    /\ pc = "create_visualization"
    /\ viz_fig' = create_visualization(results_df, query_input)
    /\ calls' = Append(calls, "create_visualization")
    /\ shown' = shown \cup { "st.plotly_chart(viz_fig)" }
    /\ pc' = "done"
    /\ UNCHANGED << dbvars, statvars, prompt, mistral_api_key, query_input, tone, response, sql_query, error,
                    raised, results_df, analysis, narrative, executed, http_posts >>

\* the script ends; the next interaction runs it again from the top with
\* fresh locals and the same session state
Rerun ==
    /\ pc = "done"
    /\ pc' = "idle"
    /\ query_input' = <<>> /\ tone' = NotSet
    /\ sql_query' = NotSet /\ error' = NotSet /\ raised' = NoException
    /\ results_df' = NoFrame /\ analysis' = NotSet /\ narrative' = NotSet
    /\ viz_fig' = NotSet
    /\ shown' = {} /\ calls' = <<>> /\ executed' = <<>> /\ http_posts' = 0
    /\ response' = NotSet /\ prompt' = NotSet
    /\ UNCHANGED << dbvars, statvars, mistral_api_key >>

Next ==
    \/ Submit
    \/ GenerateSql
    \/ ExecuteQuery
    \/ Analyze
    \/ GenerateNarrative
    \/ CreateVisualization
    \/ Rerun

Spec == Init /\ [][Next]_vars

-----------------------------------------------------------------------------
(* Specification SpecSql: MistralService.generate_sql on every api key and  *)
(* every provider response.                                                 *)

Rest0 ==
    /\ query_input = <<>> /\ tone = NotSet
    /\ results_df = NoFrame /\ analysis = NotSet /\ narrative = NotSet
    /\ viz_fig = NotSet /\ shown = {} /\ calls = <<>> /\ executed = <<>>
    /\ prompt = NotSet /\ DbIdle /\ StatIdle

InitSql ==
    /\ pc = "generate_sql"
    /\ mistral_api_key \in ApiKeys
    /\ response \in Responses
    /\ sql_query = NotSet /\ error = NotSet /\ raised = NoException
    /\ http_posts = 0
    /\ Rest0

GenerateSqlCall ==
    /\ pc = "generate_sql"
    /\ LET r == generate_sql(mistral_api_key, response)
       IN  /\ sql_query' = r.query
           /\ error' = r.error
           /\ raised' = r.raised
           /\ http_posts' = http_posts + r.posts
    /\ pc' = "returned"
    /\ UNCHANGED << dbvars, statvars, prompt, mistral_api_key, query_input, tone, response, results_df, analysis,
                    narrative, viz_fig, shown, calls, executed >>

NextSql == GenerateSqlCall

SpecSql == InitSql /\ [][NextSql]_vars

-----------------------------------------------------------------------------
(* Specification SpecViz: create_visualization on every frame and question *)

InitViz ==
    /\ pc = "create_visualization"
    /\ results_df \in Frames
    /\ query_input \in Questions
    /\ viz_fig = NotSet
    /\ mistral_api_key = "" /\ tone = NotSet /\ response = NotSet
    /\ sql_query = NotSet /\ error = NotSet /\ raised = NoException
    /\ analysis = NotSet /\ narrative = NotSet
    /\ shown = {} /\ calls = <<>> /\ executed = <<>> /\ http_posts = 0
    /\ prompt = NotSet /\ DbIdle /\ StatIdle

CreateVisualizationCall ==
    /\ pc = "create_visualization"
    /\ viz_fig' = create_visualization(results_df, query_input)
    /\ pc' = "returned"
    /\ UNCHANGED << dbvars, statvars, prompt, mistral_api_key, query_input, tone, response, sql_query, error,
                    raised, results_df, analysis, narrative, shown, calls, executed,
                    http_posts >>

NextViz == CreateVisualizationCall

SpecViz == InitViz /\ [][NextViz]_vars

-----------------------------------------------------------------------------
(* Specification SpecAnalysis: analyze_query_results on every frame *)

InitAnalysis ==
    /\ pc = "analyze_query_results"
    /\ results_df \in Frames
    /\ analysis = NotSet
    /\ query_input = <<>> /\ viz_fig = NotSet
    /\ mistral_api_key = "" /\ tone = NotSet /\ response = NotSet
    /\ sql_query = NotSet /\ error = NotSet /\ raised = NoException
    /\ narrative = NotSet
    /\ shown = {} /\ calls = <<>> /\ executed = <<>> /\ http_posts = 0
    /\ prompt = NotSet /\ DbIdle /\ StatIdle

AnalyzeCall ==
    /\ pc = "analyze_query_results"
    /\ analysis' = analyze_query_results(results_df)
    /\ pc' = "returned"
    /\ UNCHANGED << dbvars, statvars, prompt, mistral_api_key, query_input, tone, response, sql_query, error,
                    raised, results_df, narrative, viz_fig, shown, calls, executed,
                    http_posts >>

NextAnalysis == AnalyzeCall

SpecAnalysis == InitAnalysis /\ [][NextAnalysis]_vars

-----------------------------------------------------------------------------
(* Specification SpecStats: the statistics of every numerical column *)

InitStats ==
    /\ pc = "numerical_stats"
    /\ column \in NumericalColumns
    /\ col_stats = NotSet
    /\ corr_matrix = NotSet /\ correlations = NotSet
    /\ corr_value = NotSet /\ strength = NotSet /\ insights = NotSet
    /\ HandlerIdle /\ DbIdle

NumericalStatsCall ==
    /\ pc = "numerical_stats"
    /\ col_stats' = numerical_stats(column)
    /\ pc' = "returned"
    /\ UNCHANGED << handlervars, dbvars, column, corr_matrix, correlations,
                    corr_value, strength, insights >>

\* _generate_insights(df, analysis) (line 134), for the column
GenerateInsightsCall ==
    /\ pc = "returned"
    /\ insights' = generate_insights(col_stats, Len(column))
    /\ pc' = "insights"
    /\ UNCHANGED << handlervars, dbvars, column, col_stats, corr_matrix, correlations,
                    corr_value, strength >>

NextStats ==
    \/ NumericalStatsCall
    \/ GenerateInsightsCall

SpecStats == InitStats /\ [][NextStats]_vars

-----------------------------------------------------------------------------
(* Specification SpecCorr: the correlations of up to MaxCols numerical     *)
(* columns, on every matrix corr() can give.                               *)

InitCorr ==
    /\ pc = "correlations"
    /\ \E n \in 0..MaxCols : corr_matrix \in { [n |-> n, m |-> m] : m \in CorrMatrices(n) }
    /\ correlations = NotSet
    /\ column = NotSet /\ col_stats = NotSet
    /\ corr_value = NotSet /\ strength = NotSet /\ insights = NotSet
    /\ HandlerIdle /\ DbIdle

CorrelationsCall ==
    /\ pc = "correlations"
    /\ correlations' = Correlations(corr_matrix.n, corr_matrix.m)
    /\ pc' = "returned"
    /\ UNCHANGED << handlervars, dbvars, column, col_stats, corr_matrix,
                    corr_value, strength, insights >>

NextCorr == CorrelationsCall

SpecCorr == InitCorr /\ [][NextCorr]_vars

-----------------------------------------------------------------------------
(* Specification SpecInterpret: _interpret_correlation on every value *)

InitInterpret ==
    /\ pc = "_interpret_correlation"
    /\ corr_value \in (-MaxCorr..MaxCorr) \cup { NaN }
    /\ strength = NotSet /\ insights = NotSet
    /\ column = NotSet /\ col_stats = NotSet
    /\ corr_matrix = NotSet /\ correlations = NotSet
    /\ HandlerIdle /\ DbIdle

InterpretCall ==
    /\ pc = "_interpret_correlation"
    /\ strength' = interpret_correlation(corr_value)
    /\ pc' = "returned"
    /\ UNCHANGED << handlervars, dbvars, column, col_stats, corr_matrix,
                    correlations, corr_value, insights >>

NextInterpret == InterpretCall

SpecInterpret == InitInterpret /\ [][NextInterpret]_vars

-----------------------------------------------------------------------------
(* Specification SpecNarrative: MistralService.generate_narrative on every *)
(* tone, api key and provider response, called with the tone as it is and  *)
(* called as the handler calls it, with the selector's value lower-cased.  *)

ToneArgs ==
    Tones \cup { <<"f","o","r","m","a","l">>, <<"c","a","s","u","a","l">>,
                 <<"F","O","R","M","A","L">>, <<>> }

InitNarrative ==
    /\ pc = "generate_narrative"
    /\ mistral_api_key \in ApiKeys
    /\ tone \in ToneArgs
    /\ response \in NarrativeResponses
    /\ prompt = NotSet /\ narrative = NotSet /\ raised = NoException
    /\ http_posts = 0
    /\ query_input = <<>> /\ sql_query = NotSet /\ error = NotSet
    /\ results_df = NoFrame /\ analysis = NotSet /\ viz_fig = NotSet
    /\ shown = {} /\ calls = <<>> /\ executed = <<>>
    /\ DbIdle /\ StatIdle

\* generate_narrative(..., tone)
NarrativeCall ==
    /\ pc = "generate_narrative"
    /\ LET r == generate_narrative(mistral_api_key, tone, response)
       IN  /\ prompt' = r.prompt
           /\ narrative' = r.narrative
           /\ raised' = r.raised
           /\ http_posts' = http_posts + r.posts
    /\ pc' = "returned"
    /\ UNCHANGED << dbvars, statvars, mistral_api_key, query_input, tone, response,
                    sql_query, error, results_df, analysis, viz_fig, shown, calls,
                    executed >>

\* app.py 281 and 319-325: generate_narrative(..., tone.lower()) with the
\* value of the selectbox
AppNarrativeCall ==
    /\ pc = "generate_narrative"
    /\ tone \in Tones
    /\ LET r == generate_narrative(mistral_api_key, Lower(tone), response)
       IN  /\ prompt' = r.prompt
           /\ narrative' = r.narrative
           /\ raised' = r.raised
           /\ http_posts' = http_posts + r.posts
    /\ pc' = "returned to the handler"
    /\ UNCHANGED << dbvars, statvars, mistral_api_key, query_input, tone, response,
                    sql_query, error, results_df, analysis, viz_fig, shown, calls,
                    executed >>

NextNarrative ==
    \/ NarrativeCall
    \/ AppNarrativeCall

SpecNarrative == InitNarrative /\ [][NextNarrative]_vars

-----------------------------------------------------------------------------
(* Specification SpecDb: the construction of a Database with every         *)
(* argument, environment and connection outcome, then the prompt the       *)
(* handler has generate_sql build for it.                                  *)

InitDb ==
    /\ pc = "Database"
    /\ database_url \in DatabaseUrls
    /\ db_args \in [ db_path : DbPaths, connection_string : ConnectionStrings ]
    /\ db = NotSet
    /\ metadata = NotSet /\ schema_info = NotSet
    /\ session = NotSet /\ db_cache = NotSet
    /\ HandlerIdle /\ StatIdle

\* Database(db_path=..., connection_string=...)
DatabaseInit ==
    /\ pc = "Database"
    /\ \E fate \in Fates :
          db' = Database(db_args.db_path, db_args.connection_string, database_url, fate)
    /\ pc' = "connected"
    /\ UNCHANGED << handlervars, statvars, database_url, db_args, metadata, schema_info,
                    session, db_cache >>

\* app.py 297-301: generate_sql(query_input, db.get_schema_info(),
\* db_type=db.db_type), up to the prompt
SqlPromptCall ==
    /\ pc = "connected"
    /\ prompt' = SqlPrompt(db.db_type, {}, database_url)
    /\ pc' = "prompted"
    /\ UNCHANGED << dbvars, statvars, mistral_api_key, query_input, tone, response,
                    sql_query, error, raised, results_df, analysis, narrative,
                    viz_fig, shown, calls, executed, http_posts >>

NextDb ==
    \/ DatabaseInit
    \/ SqlPromptCall

SpecDb == InitDb /\ [][NextDb]_vars

-----------------------------------------------------------------------------
(* Specification SpecSchema: get_schema_info on every metadata *)

InitSchema ==
    /\ pc = "get_schema_info"
    /\ metadata \in Metadata
    /\ schema_info = NotSet
    /\ database_url = NotSet /\ db_args = NotSet /\ db = NotSet
    /\ session = NotSet /\ db_cache = NotSet
    /\ HandlerIdle /\ StatIdle

GetSchemaInfoCall ==
    /\ pc = "get_schema_info"
    /\ schema_info' = get_schema_info(metadata)
    /\ pc' = "returned"
    /\ UNCHANGED << handlervars, statvars, database_url, db_args, db, metadata,
                    session, db_cache >>

NextSchema == GetSchemaInfoCall

SpecSchema == InitSchema /\ [][NextSchema]_vars

-----------------------------------------------------------------------------
(* Specification SpecConnect: a session whose database was initialised at  *)
(* script start (app.py 37-38), and the "Connect" buttons pressed any      *)
(* number of times.                                                        *)

InitConnect ==
    /\ pc = "idle"
    /\ database_url \in DatabaseUrls
    /\ \E fate \in Fates : db = Database(Unset, Unset, database_url, fate)
    /\ db_cache = { [db_path |-> Unset, connection_string |-> Unset, object |-> db] }
    /\ db_args = [db_path |-> Unset, connection_string |-> Unset]
    /\ session = [db_connection_type |-> NotSet, connection_string |-> Unset]
    /\ metadata = NotSet /\ schema_info = NotSet
    /\ HandlerIdle /\ StatIdle

ConnectPostgreSQL == Connect(PgUrl, MsgConnectedPostgreSQL)

ConnectMySQL == Connect(MyUrl, MsgConnectedMySQL)

NextConnect ==
    \/ ConnectPostgreSQL
    \/ ConnectMySQL
    \/ Rerun

SpecConnect == InitConnect /\ [][NextConnect]_vars

-----------------------------------------------------------------------------
(* Properties of generate_sql, under SpecSql *)

Returned == pc = "returned" /\ raised = NoException

\* q begins with kw, compared character by character without regard to case
BeginsIgnoringCase(q, kw) ==
    /\ Len(q) >= Len(kw)
    /\ \A i \in 1..Len(kw) : LowerChar(q[i]) = <<kw[i]>>

\* C2: every result of generate_sql is (query, None) with query beginning,
\* case-insensitively, with "select" or "with", or ('', message) with a
\* message; never a query together with an error, never a query that does
\* not begin with SELECT or WITH together with no error.
C2_TwoShapes ==
    Returned =>
        \/ /\ error = None
           /\ BeginsIgnoringCase(sql_query, kw_select) \/ BeginsIgnoringCase(sql_query, kw_with)
        \/ /\ sql_query = <<>>
           /\ error # None
           /\ error # ""

\* a completion whose extraction fails only at the final validation: the
\* position found in the lower-cased text is past the keyword in the text
C2_Witness ==
    /\ Returned
    /\ mistral_api_key # ""
    /\ response.kind = "completion"
    /\ response.stmt # <<>>
    /\ StartPos(RemoveFences(Strip(response.content))) > 0
    /\ sql_query = <<>>
    /\ error = MsgNotSql

\* C3 (as claimed): when the completion carries explanatory text or fence
\* markers before or after the SQL statement, generate_sql returns just the
\* statement: it starts at the statement's own keyword and holds none of the
\* surrounding text and no fence.
C3_JustTheStatement ==
    (/\ Returned
     /\ mistral_api_key # ""
     /\ response.kind = "completion"
     /\ response.stmt # <<>>)
    => /\ error = None
       /\ sql_query = response.stmt

\* the str(exception) the claim names, per failure
ExpectedFailureMessage(api_key, resp) ==
    IF api_key = "" THEN MsgKeyNotSet
    ELSE CASE resp.kind = "request_exception" -> resp.msg
           [] resp.kind = "no_choices" -> "'choices'"
           [] resp.kind = "empty_choices" -> "list index out of range"
           [] resp.kind = "null_content" -> "'NoneType' object has no attribute 'strip'"

\* C5: a failed LLM call (no API key, in which case nothing is posted; a
\* failed request; a response without choices[0].message.content) is
\* returned as ('', str(exception)) and never raised.
C5_FailuresAreValues ==
    (pc = "returned" /\ (mistral_api_key = "" \/ response.kind # "completion"))
    => /\ raised = NoException
       /\ sql_query = <<>>
       /\ error = ExpectedFailureMessage(mistral_api_key, response)
       /\ (mistral_api_key = "" => http_posts = 0)

\* the key is unset and generate_sql has returned the ValueError's text
C5_Witness ==
    /\ pc = "returned"
    /\ mistral_api_key = ""
    /\ response.kind = "completion"
    /\ error = MsgKeyNotSet
    /\ http_posts = 0

-----------------------------------------------------------------------------
(* Properties of create_visualization, under SpecViz *)

SixTemplates ==
    { "time_series", "comparison", "scatter_plot", "bar_chart", "pie_chart", "histogram" }

Textual == { "object", "category", "bool" }

NumCols(df) == { i \in 1..Len(df.cols) : df.cols[i].dtype \in NumberDtypes }
DateCols(df) ==
    { i \in 1..Len(df.cols) : df.cols[i].dtype \in Textual /\ df.cols[i].to_datetime_ok }
CatCols(df) ==
    { i \in 1..Len(df.cols) : df.cols[i].dtype \in Textual /\ ~df.cols[i].to_datetime_ok }

HasKeyword(keywords) == \E k \in keywords : Contains(Lower(query_input), k)

RuleMatches(k) ==
    LET df == results_df
    IN  CASE k = 1 -> HasKeyword(time_keywords) /\ DateCols(df) # {} /\ NumCols(df) # {}
          [] k = 2 -> HasKeyword(comparison_keywords) /\ CatCols(df) # {} /\ NumCols(df) # {}
          [] k = 3 -> HasKeyword(relationship_keywords) /\ Cardinality(NumCols(df)) >= 2
          [] k = 4 -> NumCols(df) # {} /\ CatCols(df) # {}
          [] k = 5 -> Cardinality(NumCols(df)) >= 2
          [] k = 6 -> CatCols(df) # {}
          [] k = 7 -> NumCols(df) # {}

RuleChart ==
    << "time_series", "comparison", "scatter_plot", "bar_chart", "scatter_plot",
       "pie_chart", "histogram" >>

C8_NotEnoughData ==
    (pc = "returned" /\ (Empty(results_df) \/ results_df.rows = 1))
    => /\ viz_fig.chart = "annotation"
       /\ viz_fig.text = MsgNotEnough

C8_Witness ==
    /\ pc = "returned"
    /\ results_df.rows = 1
    /\ RuleMatches(1) /\ RuleMatches(2)
    /\ viz_fig = Annotation(MsgNotEnough)

-----------------------------------------------------------------------------
(* Properties of analyze_query_results, under SpecAnalysis *)

\* C9 (as claimed): on a non-empty result the three column lists of the
\* summary are pairwise disjoint and together hold every column.
C9_ExactlyOneClass ==
    (pc = "returned" /\ ~Empty(results_df))
    => LET num == Range(analysis.summary.numerical_columns)
           cat == Range(analysis.summary.categorical_columns)
           dat == Range(analysis.summary.date_columns)
       IN  /\ num \cap cat = {} /\ num \cap dat = {} /\ cat \cap dat = {}
           /\ num \cup cat \cup dat = Range(analysis.summary.columns)

\* C10: on an empty dataframe the result is exactly {'error': 'No data to
\* analyze'}, with no other key, and nothing is raised.
C10_EmptyFrame ==
    (pc = "returned" /\ Empty(results_df))
    => /\ DOMAIN analysis = { "error" }
       /\ analysis.error = MsgNoData
       /\ raised = NoException

C10_Witness ==
    /\ pc = "returned"
    /\ results_df.rows = 0
    /\ Len(results_df.cols) > 0
    /\ analysis = [error |-> MsgNoData]

-----------------------------------------------------------------------------
(* Properties of the submit handler, under Spec *)

Pipeline ==
    << "generate_sql", "execute_query", "analyze_query_results", "generate_narrative",
       "create_visualization" >>

Called(f) == \E i \in 1..Len(calls) : calls[i] = f

\* C1: the steps run in the order generate_sql, execute_query,
\* analyze_query_results, generate_narrative, create_visualization; the query
\* is executed only after generate_sql returned no error; analysis, narrative
\* and chart happen only after execute_query returned a non-empty result; a
\* failed execution or an empty result ends with a message, no narrative
\* request and no chart.
C1_OrderedSteps ==
    /\ Len(calls) <= Len(Pipeline)
    /\ calls = SubSeq(Pipeline, 1, Len(calls))
    /\ Called("execute_query") => error = None
    /\ Called("analyze_query_results") => (results_df # NoFrame /\ ~Empty(results_df))
    /\ (pc = "done" /\ Called("execute_query")
            /\ (results_df = NoFrame \/ Empty(results_df)))
        => /\ ~Called("analyze_query_results")
           /\ ~Called("generate_narrative")
           /\ ~Called("create_visualization")
           /\ http_posts = 1
           /\ viz_fig = NotSet
           /\ \/ MsgNoResults \in shown
              \/ MsgExecError \in shown

\* a whole run, ending with a chart on the page
C1_Witness ==
    /\ pc = "done"
    /\ calls = Pipeline
    /\ viz_fig.chart \in SixTemplates

\* C4: execute_query is only ever passed the query of a successful
\* generation, which begins with SELECT or WITH; when generate_sql fails
\* nothing is executed.
C4_OnlyGeneratedSelects ==
    /\ \A i \in 1..Len(executed) :
          /\ error = None
          /\ executed[i] = sql_query
          /\ \/ BeginsIgnoringCase(executed[i], kw_select)
             \/ BeginsIgnoringCase(executed[i], kw_with)
    /\ (Called("generate_sql") /\ error # None) => executed = <<>>

C4_Witness ==
    /\ pc = "done"
    /\ Len(executed) = 1
    /\ BeginsIgnoringCase(executed[1], kw_with)

-----------------------------------------------------------------------------
(* Properties of the column statistics, under SpecStats *)

\* the values of the column that lie outside the fences the claim gives,
\* Q1 - 1.5*IQR and Q3 + 1.5*IQR, compared in eighths
OutsideFences(Q1, Q3) ==
    { i \in DOMAIN column :
        /\ column[i] # NaN /\ Q1 # NaN /\ Q3 # NaN
        /\ LET IQR == Q3 - Q1
           IN  \/ 8 * column[i] < 2 * Q1 - 3 * IQR
               \/ 8 * column[i] > 2 * Q3 + 3 * IQR }

\* C11: outlier_count is the number of values strictly below Q1 - 1.5*IQR
\* or strictly above Q3 + 1.5*IQR, with Q1 and Q3 the 25% and 75% quantiles;
\* so it lies between 0 and the number of rows, and it is 0 for a column
\* whose values are all equal.
C11_OutlierCount ==
    pc = "returned" =>
        /\ col_stats.Q1 = Quantile(column, 1)
        /\ col_stats.Q3 = Quantile(column, 3)
        /\ col_stats.outlier_count = Cardinality(OutsideFences(col_stats.Q1, col_stats.Q3))
        /\ col_stats.outlier_count >= 0
        /\ col_stats.outlier_count <= Len(column)
        /\ (\A i, j \in DOMAIN column : column[i] = column[j])
              => col_stats.outlier_count = 0

\* a column with one value above the upper fence
C11_Witness ==
    /\ pc = "returned"
    /\ col_stats.outlier_count = 1
    /\ col_stats.missing = 0
    /\ \E i \in DOMAIN column : 8 * column[i] > 2 * col_stats.Q3 + 3 * (col_stats.Q3 - col_stats.Q1)

-----------------------------------------------------------------------------
(* Properties of the correlations, under SpecCorr and SpecInterpret *)

\* the entries of correlations for the pair of columns p
EntriesFor(p) == { k \in DOMAIN correlations : correlations[k].columns = p }

\* C12: correlations has an entry for a pair of distinct numerical columns
\* exactly when the pair's coefficient, rounded to two decimals, is defined
\* and greater than 0.5 in absolute value; every such pair appears once, in
\* column order, with the rounded coefficient, and never a column with
\* itself.
C12_SignificantPairs ==
    pc = "returned" =>
        LET n == corr_matrix.n
            rounded(p) == Round2(corr_matrix.m[p])
        IN  /\ \A p \in Pairs(n) :
                  IF rounded(p) # NaN /\ Abs(rounded(p)) > 500
                  THEN /\ Cardinality(EntriesFor(p)) = 1
                       /\ \A k \in EntriesFor(p) : correlations[k].correlation = rounded(p)
                  ELSE EntriesFor(p) = {}
            /\ \A k \in DOMAIN correlations : correlations[k].columns \in Pairs(n)
            /\ \A k, l \in DOMAIN correlations :
                  k < l => \/ correlations[k].columns[1] < correlations[l].columns[1]
                           \/ /\ correlations[k].columns[1] = correlations[l].columns[1]
                              /\ correlations[k].columns[2] < correlations[l].columns[2]

\* three columns: two pairs are kept, the pair whose coefficient 0.505
\* rounds to 0.5 is not
C12_Witness ==
    /\ pc = "returned"
    /\ corr_matrix.n = 3
    /\ Len(correlations) = 2
    /\ corr_matrix.m[<< 1, 3 >>] = 505
    /\ correlations[1].columns = << 1, 2 >>
    /\ correlations[2].columns = << 2, 3 >>

\* C13: the strength is 'very strong' above 0.8, 'strong' above 0.6 up to
\* 0.8, 'moderate' above 0.4 up to 0.6, 'weak' above 0.2 up to 0.4 and 'very
\* weak' otherwise, by absolute value; the direction is 'positive' exactly
\* when the value is greater than 0, 'negative' otherwise, 0 included.
C13_Bands ==
    pc = "returned" =>
        LET a == IF corr_value = NaN THEN NaN ELSE Abs(corr_value)
            defined == corr_value # NaN
        IN  /\ strength[1] = "very strong" <=> (defined /\ a > 800)
            /\ strength[1] = "strong" <=> (defined /\ 600 < a /\ a <= 800)
            /\ strength[1] = "moderate" <=> (defined /\ 400 < a /\ a <= 600)
            /\ strength[1] = "weak" <=> (defined /\ 200 < a /\ a <= 400)
            /\ strength[1] = "very weak" <=> (~defined \/ a <= 200)
            /\ strength[2] = "positive" <=> (defined /\ corr_value > 0)
            /\ strength[2] = "negative" <=> (~defined \/ corr_value <= 0)

\* the value 0 is 'very weak negative'
C13_Witness ==
    /\ pc = "returned"
    /\ corr_value = 0
    /\ strength = << "very weak", "negative" >>

-----------------------------------------------------------------------------
(* Properties of the narrative and of the requests sent *)

\* the positions of the prompt that hold a tone directive
ToneDirectives == { i \in DOMAIN prompt : prompt[i] \in { FormalDirective, CasualDirective } }

\* C14 (SpecNarrative): the prompt carries exactly one tone directive, the
\* formal one when the tone passed is 'formal' and the casual one for every
\* other value; called from the handler, the directive is that of the
\* selector's value.
C14_OneToneDirective ==
    pc \in { "returned", "returned to the handler" } =>
        /\ Cardinality(ToneDirectives) = 1
        /\ \A i \in ToneDirectives :
              /\ pc = "returned" =>
                    prompt[i] = (IF tone = <<"f","o","r","m","a","l">>
                                 THEN FormalDirective ELSE CasualDirective)
              /\ pc = "returned to the handler" =>
                    /\ tone = <<"F","o","r","m","a","l">> => prompt[i] = FormalDirective
                    /\ tone = <<"C","a","s","u","a","l">> => prompt[i] = CasualDirective

\* the handler's call with the selector on 'Formal'
C14_Witness ==
    /\ pc = "returned to the handler"
    /\ tone = <<"F","o","r","m","a","l">>
    /\ \E i \in DOMAIN prompt : prompt[i] = FormalDirective

\* the narrative request failed: no key, a transport or HTTP failure, or a
\* body without a completion
NarrativeCallFailed ==
    \/ mistral_api_key = ""
    \/ response \in HttpFailures \cup MalformedBodies

C16_AtMostTwoRequests ==
    /\ http_posts <= Cardinality({ i \in DOMAIN calls :
                                     calls[i] \in { "generate_sql", "generate_narrative" } })
    /\ http_posts <= 2
    \* nothing was executed, or nothing was analysed because no row came back
    /\ (Called("generate_sql") /\ pc = "done"
          /\ (~Called("execute_query") \/ ~Called("analyze_query_results")))
        => http_posts = 1

\* a question answered with a narrative: two requests
C16_Witness ==
    /\ pc = "done"
    /\ http_posts = 2
    /\ Called("generate_narrative")
    /\ response.kind = "completion"

-----------------------------------------------------------------------------
(* Properties of the Database object and of the dialect, under SpecDb *)

Constructed == pc \in { "connected", "prompted" }

\* C17: with db_type passed, the prompt names PostgreSQL and carries the
\* PostgreSQL guidelines exactly when db_type denotes PostgreSQL, and names
\* SQLite with the SQLite guidelines when db_type is 'sqlite'; in the
\* handler the dialect asked for is that of the database the query is
\* executed on.
C17_DialectFollowsDbType ==
    pc = "prompted" =>
        /\ (prompt.dialect = "PostgreSQL") <=> (db.db_type = Postgresql)
        /\ (prompt.guidelines = "CRITICAL PostgreSQL-specific guidelines:")
              <=> (db.db_type = Postgresql)
        /\ db.db_type = Sqlite =>
              /\ prompt.dialect = "SQLite"
              /\ prompt.guidelines = "SQLite-specific guidelines:"
        /\ prompt.dialect = "PostgreSQL" => db.engine.dialect = Postgresql
        /\ prompt.dialect = "SQLite" => db.engine.dialect = Sqlite

\* C18: Database(db_path=p) without a connection string is connected to the
\* SQLite file p and has db_type 'sqlite', whatever DATABASE_URL is, and no
\* sample tables are created in p.
C18_PathMeansThatFile ==
    (Constructed /\ ~Truthy(db_args.connection_string) /\ Truthy(db_args.db_path)) =>
        /\ db.engine = [dialect |-> Sqlite, url |-> SqliteUrl(db_args.db_path)]
        /\ db.db_type = Sqlite
        /\ db_args.db_path \notin db.samples
        /\ SqliteUrl(db_args.db_path) \notin db.samples

\* C20: after __init__, on every path of attempts and fallbacks, db_type
\* names the backend of the engine the object holds.
C20_DbTypeNamesTheEngine ==
    Constructed => db.db_type = db.engine.dialect

-----------------------------------------------------------------------------
(* Properties of get_schema_info, under SpecSchema *)

\* the position of name in the sequence cols
PositionIn(name, cols) == CHOOSE k \in DOMAIN cols : cols[k] = name

\* what the column name of table points to, by each foreign key that
\* constrains it: the referred column at the same position
PointsTo(name, table) ==
    { [table |-> fk.referred_table,
       column |-> fk.referred_columns[PositionIn(name, fk.constrained_columns)]] :
        fk \in { f \in Range(table.foreign_keys) : name \in Range(f.constrained_columns) } }

\* C19: without inspector the result is {}; otherwise it has one entry per
\* table, listing the columns with their name and lower-cased type;
\* is_primary_key is set exactly for the columns of the primary key, and
\* references exactly for the constrained columns of a foreign key, naming
\* the referred table and the column this column points to, also when the
\* key spans several columns.
C19_SchemaInfo ==
    pc = "returned" =>
        IF ~metadata.inspector THEN schema_info = <<>>
        ELSE /\ DOMAIN schema_info = { metadata.tables[i].name : i \in DOMAIN metadata.tables }
             /\ \A i \in DOMAIN metadata.tables :
                   LET table == metadata.tables[i]
                       info == schema_info[table.name]
                   IN  /\ DOMAIN info = DOMAIN table.columns
                       /\ \A k \in DOMAIN info :
                             /\ info[k].name = table.columns[k].name
                             /\ info[k].type = Lower(table.columns[k].type)
                             /\ info[k].is_primary_key
                                   <=> info[k].name \in Range(table.primary_key)
                             /\ info[k].references # {}
                                   <=> PointsTo(info[k].name, table) # {}
                             /\ info[k].references \subseteq PointsTo(info[k].name, table)

-----------------------------------------------------------------------------
(* Properties of the "Connect" handlers, under SpecConnect *)

\* the object d holds a live connection to the connection string cs
ConnectedTo(d, cs) == d.engine.url = cs /\ d.inspector.url = cs

\* C21: a press of "Connect" with the fields filled shows the success
\* message and records db_connection_type = 'external' with the connection
\* string only if st.session_state.db is connected to that string; if the
\* attempt fails, db, db_connection_type and connection_string keep their
\* previous values and an error is shown.
C21_ConnectedOrUnchanged ==
    [][ (pc = "idle" /\ pc' = "done" /\ MsgFillFields \notin shown') =>
            LET requested == db_args'.connection_string
            IN  IF ConnectedTo(db', requested)
                THEN TRUE
                ELSE /\ MsgConnectedPostgreSQL \notin shown'
                     /\ MsgConnectedMySQL \notin shown'
                     /\ db' = db
                     /\ session' = session
                     /\ MsgConnectError \in shown' ]_vars

-----------------------------------------------------------------------------
(* Properties of the insights, under SpecStats *)

Skews == { i \in DOMAIN insights : insights[i].kind = "highly skewed" }

\* C22: no 'highly skewed' insight for a column whose mean equals its
\* median, a column of zeros included; an insight only when the mean
\* deviates from the median by more than half of the median, 'right' when
\* the mean exceeds the median by that margin and 'left' when it falls short
\* of it by that margin.  With mean = sum/count and the median m in
\* quarters, mean - median is (4*sum - count*m) / (4*count).
C22_SkewFollowsMeanAndMedian ==
    pc = "insights" =>
        LET count == col_stats.mean.count
            diff == 4 * col_stats.mean.sum - count * col_stats.median
            half == count * Abs(col_stats.median)
        IN  /\ (count > 0 /\ diff = 0) => Skews = {}
            /\ \A i \in Skews :
                  /\ count > 0
                  /\ insights[i].direction = "right" => 2 * diff > half
                  /\ insights[i].direction = "left" => 2 * (-diff) > half

====
